---------------------------- MODULE Spec2Model ----------------------------
(***************************************************************************)
(* Model of cordova-android's plugin directive handlers                    *)
(* (src/lib/pluginHandlers.js): the install / uninstall pair of every      *)
(* directive kind, the shared copy / symlink / prune primitives and the    *)
(* destination resolver of <source-file>.                                  *)
(*                                                                         *)
(* Paths.  A path string is a sequence of its segments.  An absolute       *)
(* string starts with the marker segment "/"; a resolved (absolute,        *)
(* normalised) path, as returned by path.resolve, is the bare sequence of  *)
(* its segments below the filesystem root, so the root itself is << >>.    *)
(* An attribute the plugin.xml parser did not find is undefined.           *)
(***************************************************************************)
EXTENDS Naturals, Sequences, FiniteSets, Bags, TLC

undefined == << >>

IsAbs(p) == Len(p) > 0 /\ p[1] = "/"
Segs(p) == IF IsAbs(p) THEN Tail(p) ELSE p
Front(s) == SubSeq(s, 1, Len(s) - 1)
Last(s) == s[Len(s)]
IsPrefix(a, b) == Len(a) <= Len(b) /\ SubSeq(b, 1, Len(a)) = a

RECURSIVE Flat(_)
Flat(parts) ==
    IF parts = << >> THEN << >> ELSE Segs(Head(parts)) \o Flat(Tail(parts))

\* node:path normalisation of a segment list: "." and empty segments drop,
\* ".." pops the previous segment, stays at the root of an absolute path and
\* accumulates in front of a relative one.
RECURSIVE NormSegs(_, _, _)
NormSegs(todo, acc, abs) ==
    IF todo = << >> THEN acc
    ELSE LET h == Head(todo)
             t == Tail(todo)
         IN  IF h = "." \/ h = "" THEN NormSegs(t, acc, abs)
             ELSE IF h = ".."
                  THEN IF Len(acc) > 0 /\ Last(acc) # ".."
                       THEN NormSegs(t, Front(acc), abs)
                       ELSE IF abs THEN NormSegs(t, acc, abs)
                            ELSE NormSegs(t, Append(acc, ".."), abs)
                  ELSE NormSegs(t, Append(acc, h), abs)

\* path.join(...parts): the parts are glued with "/" and normalised; only a
\* leading "/" of the first non-empty part makes the result absolute.
RECURSIVE FirstNonEmpty(_)
FirstNonEmpty(parts) ==
    IF parts = << >> THEN << >>
    ELSE IF Head(parts) # << >> THEN Head(parts) ELSE FirstNonEmpty(Tail(parts))

pathJoin(parts) ==
    LET abs == IsAbs(FirstNonEmpty(parts))
    IN  (IF abs THEN <<"/">> ELSE << >>) \o NormSegs(Flat(parts), << >>, abs)

\* path.resolve(...parts): right to left up to the first absolute part.  Every
\* call of the handlers passes an absolute first part.
RECURSIVE FromLastAbs(_)
FromLastAbs(parts) ==
    IF parts = << >> THEN << >>
    ELSE LET rest == FromLastAbs(Tail(parts))
         IN  IF \E i \in 1..Len(Tail(parts)) : IsAbs(Tail(parts)[i])
             THEN rest
             ELSE Segs(Head(parts)) \o Flat(Tail(parts))

pathResolve(parts) == NormSegs(FromLastAbs(parts), << >>, TRUE)

\* path.basename / path.dirname (of a resolved path).
pathBasename(p) == IF Segs(p) = << >> THEN << >> ELSE <<Last(Segs(p))>>
pathDirname(p) == IF p = << >> THEN << >> ELSE Front(p)

\* is-path-inside: child is a strict descendant of parent (both resolved).
isPathInside(child, parent) == IsPrefix(parent, child) /\ Len(child) > Len(parent)

\* String.prototype.endsWith on the file names the model uses.
SuffixesOf(name) ==
    CASE name = "Foo.java" -> {".java", "java"}
      [] name = "njava" -> {"java"}
      [] name = "I.aidl" -> {".aidl"}
      [] name = "l.so" -> {".so"}
      [] name = "c.json" -> {".json"}
      [] OTHER -> {}

endsWith(p, suffix) == Len(p) > 0 /\ suffix \in SuffixesOf(Last(p))

(***************************************************************************)
(* getInstallDestination                                                   *)
(***************************************************************************)
\* a faulty prefix that drops the "main" segment; C7_LegacyPrefix detects it
APP_MAIN_PREFIX_short == <<"app", "src">>

APP_MAIN_PREFIX == <<"app", "src", "main">>

\* ^app(/|$), ^libs(/|$), ^src(/|$), ^src/main(/|$) tested on targetDir
appReg(targetDir) == Len(targetDir) > 0 /\ targetDir[1] = "app"
libsReg(targetDir) == Len(targetDir) > 0 /\ targetDir[1] = "libs"
srcReg(targetDir) == Len(targetDir) > 0 /\ targetDir[1] = "src"
srcMainReg(targetDir) ==
    Len(targetDir) > 1 /\ targetDir[1] = "src" /\ targetDir[2] = "main"

\* a faulty replace that strips nothing; C8_Policy detects it
replaceReg_keeps(targetDir, matches) == targetDir

\* targetDir.replace(reg, ''): the matched first segment and its "/" go
replaceReg(targetDir, matches) == IF matches THEN Tail(targetDir) ELSE targetDir

getInstallDestination(obj) ==
    IF appReg(obj.targetDir)
    THEN pathJoin(<<obj.targetDir, pathBasename(obj.src)>>)
    ELSE IF endsWith(obj.src, ".java")
         THEN pathJoin(<<APP_MAIN_PREFIX, <<"java">>,
                         replaceReg(obj.targetDir, srcReg(obj.targetDir)),
                         pathBasename(obj.src)>>)
    ELSE IF endsWith(obj.src, ".aidl")
         THEN pathJoin(<<APP_MAIN_PREFIX, <<"aidl">>,
                         replaceReg(obj.targetDir, srcReg(obj.targetDir)),
                         pathBasename(obj.src)>>)
    ELSE IF libsReg(obj.targetDir)
         THEN IF endsWith(obj.src, ".so")
              THEN pathJoin(<<APP_MAIN_PREFIX, <<"jniLibs">>,
                              replaceReg(obj.targetDir, libsReg(obj.targetDir)),
                              pathBasename(obj.src)>>)
              ELSE pathJoin(<<<<"app">>, obj.targetDir, pathBasename(obj.src)>>)
    ELSE IF srcMainReg(obj.targetDir)
         THEN pathJoin(<<<<"app">>, obj.targetDir, pathBasename(obj.src)>>)
    ELSE pathJoin(<<APP_MAIN_PREFIX, obj.targetDir, pathBasename(obj.src)>>)


(***************************************************************************)
(* The filesystem.  fs maps every existing resolved path to its node; the  *)
(* root << >> is always a directory and every other path has its parent    *)
(* directory in the domain.  A symbolic link is a leaf whose target is a   *)
(* resolved path; links among the inner components of a path are not       *)
(* modelled.                                                               *)
(*                                                                         *)
(* A run r of a handler is the record of the filesystem as the handler has *)
(* left it so far, the exception thrown (err, "" while none), the paths    *)
(* written (created, overwritten or deleted), the paths read, whether any  *)
(* fs call was made, and the removeFileAndParents calls made.              *)
(***************************************************************************)
DirNode == [t |-> "dir", c |-> << >>, to |-> << >>]
FileNode(content) == [t |-> "file", c |-> content, to |-> << >>]
LinkNode(target) == [t |-> "link", c |-> << >>, to |-> target]

Restrict(f, S) == [q \in S |-> f[q]]
Put(f, p, node) == [q \in DOMAIN f \cup {p} |-> IF q = p THEN node ELSE f[q]]

lexists(f, p) == p \in DOMAIN f
\* fs.existsSync follows a link: a dangling link does not exist
existsSync(f, p) ==
    p \in DOMAIN f /\ (f[p].t = "link" => f[p].to \in DOMAIN f)
realpathSync(f, p) == IF f[p].t = "link" THEN f[p].to ELSE p
\* fs.statSync(p).isDirectory(), of an existing p
isDirectory(f, p) == f[realpathSync(f, p)].t = "dir"
Children(f, p) == {q \in DOMAIN f : Len(q) = Len(p) + 1 /\ IsPrefix(p, q)}
Subtree(f, p) == {q \in DOMAIN f : IsPrefix(p, q)}
Prefixes(p) == {SubSeq(p, 1, n) : n \in 0..Len(p)}

\* err is << >> while nothing was thrown, else the thrown error: its class
\* (or errno) first, then what its message names
NoErr == << >>
Failed(r) == r.err # NoErr
Throw(r, e) == [r EXCEPT !.err = <<e>>]
Touch(r) == [r EXCEPT !.acc = TRUE]

\* fs.rmSync(p, {recursive: true, force: true}); the root itself cannot go
rmSync(r, p) ==
    IF Failed(r) THEN r
    ELSE LET gone == Subtree(r.fs, p) \ {<< >>}
         IN  [r EXCEPT !.fs = Restrict(r.fs, DOMAIN r.fs \ gone),
                       !.wr = r.wr \cup gone,
                       !.acc = TRUE,
                       !.err = IF p = << >> THEN <<"EBUSY">> ELSE NoErr]

\* fs.mkdirSync(p, {recursive: true}): fails, before it creates anything,
\* when a component of p exists and is no directory
mkdirSync(r, p) ==
    IF Failed(r) THEN r
    ELSE IF \E q \in Prefixes(p) : lexists(r.fs, q) /\ r.fs[q].t # "dir"
         THEN Throw(Touch(r), "ENOTDIR")
         ELSE LET new == Prefixes(p) \ DOMAIN r.fs
              IN  [r EXCEPT !.fs = [q \in DOMAIN r.fs \cup new |->
                                       IF q \in new THEN DirNode ELSE r.fs[q]],
                            !.wr = r.wr \cup new,
                            !.acc = TRUE]

\* fs.rmdirSync(p) of an empty directory
rmdirSync(r, p) ==
    IF Failed(r) THEN r
    ELSE [r EXCEPT !.fs = Restrict(r.fs, DOMAIN r.fs \ {p}),
                   !.wr = r.wr \cup {p},
                   !.acc = TRUE]

\* fs.cpSync(src, dest, {recursive: true}): a directory merges into dest, a
\* file or a link replaces the leaf at dest; a directory never replaces a
\* non-directory nor the reverse.  The entries of a directory are taken in
\* the order readdir gives them, which is arbitrary.
RECURSIVE cpSync(_, _, _)
RECURSIVE cpEntries(_, _, _, _)
cpEntries(r, src, dest, names) ==
    IF names = {} \/ Failed(r) THEN r
    ELSE LET e == CHOOSE x \in names : TRUE
         IN  cpEntries(cpSync(r, Append(src, e), Append(dest, e)),
                       src, dest, names \ {e})

cpSync(r, src, dest) ==
    IF Failed(r) THEN r
    ELSE IF r.fs[src].t = "dir"
    THEN IF lexists(r.fs, dest) /\ r.fs[dest].t # "dir"
         THEN Throw(Touch(r), "ERR_FS_CP_DIR_TO_NON_DIR")
         ELSE LET made == IF lexists(r.fs, dest) THEN Touch(r)
                          ELSE [r EXCEPT !.fs = Put(r.fs, dest, DirNode),
                                         !.wr = r.wr \cup {dest},
                                         !.acc = TRUE]
              IN  cpEntries(made, src, dest,
                            {Last(q) : q \in Children(r.fs, src)})
    ELSE IF lexists(r.fs, dest) /\ r.fs[dest].t = "dir"
         THEN Throw(Touch(r), "ERR_FS_CP_NON_DIR_TO_DIR")
         ELSE [r EXCEPT !.fs = Put(r.fs, dest, r.fs[src]),
                        !.wr = r.wr \cup {dest},
                        !.rd = r.rd \cup {src},
                        !.acc = TRUE]

\* fs.writeFileSync(p, content): follows a link at p
writeFileSync(r, p, content) ==
    IF Failed(r) THEN r
    ELSE LET q == IF lexists(r.fs, p) THEN realpathSync(r.fs, p) ELSE p
         IN  IF lexists(r.fs, q) /\ r.fs[q].t = "dir"
             THEN Throw(Touch(r), "EISDIR")
             ELSE IF ~(lexists(r.fs, pathDirname(q))
                       /\ r.fs[pathDirname(q)].t = "dir")
             THEN Throw(Touch(r), "ENOENT")
             ELSE [r EXCEPT !.fs = Put(r.fs, q, FileNode(content)),
                            !.wr = r.wr \cup {q},
                            !.acc = TRUE]


(***************************************************************************)
(* The handles the caller passes: plugin {id, dir} and project             *)
(* {projectDir, www, platformWww}.                                         *)
(***************************************************************************)
Plugin == [id |-> "pid", dir |-> <<"plug">>]
Project == [projectDir |-> <<"proj">>,
            www |-> <<"proj", "www">>,
            platformWww |-> <<"proj", "pwww">>]

\* the string of a resolved path
Abs(p) == <<"/">> \o p

\* new CordovaError(message): the message's variable parts are kept
ThrowCordova(r, msg) == [r EXCEPT !.err = <<"CordovaError">> \o msg]

generateAttributeError(attribute, element, id) ==
    <<"Required attribute not specified", attribute, element, id>>

\* the TypeError node:path and String methods throw on undefined
ThrowTypeError(r) == [r EXCEPT !.err = <<"TypeError">>]

RECURSIVE symlinkFileOrDirTree(_, _, _)
RECURSIVE symlinkEntries(_, _, _, _)
symlinkEntries(r, src, dest, names) ==
    IF names = {} \/ Failed(r) THEN r
    ELSE LET e == CHOOSE x \in names : TRUE
         IN  symlinkEntries(
                 symlinkFileOrDirTree(r, Append(src, e), Append(dest, e)),
                 src, dest, names \ {e})

\* fs.symlinkSync(path.relative(fs.realpathSync(path.dirname(dest)), src), dest):
\* realpathSync throws when dest's directory is missing, symlinkSync when
\* something (a dangling link) is at dest; the link resolves to src
symlinkSync(r, src, dest) ==
    IF Failed(r) THEN r
    ELSE IF ~existsSync(r.fs, pathDirname(dest)) THEN Throw(Touch(r), "ENOENT")
    ELSE IF lexists(r.fs, dest) THEN Throw(Touch(r), "EEXIST")
    ELSE [r EXCEPT !.fs = Put(r.fs, dest, LinkNode(src)),
                   !.wr = r.wr \cup {dest},
                   !.rd = r.rd \cup {src},
                   !.acc = TRUE]

symlinkFileOrDirTree(r, src, dest) ==
    IF Failed(r) THEN r
    ELSE LET r1 == IF existsSync(r.fs, dest) THEN rmSync(r, dest) ELSE Touch(r)
         IN  IF ~existsSync(r1.fs, src) THEN Throw(r1, "ENOENT")
             ELSE IF isDirectory(r1.fs, src)
             THEN symlinkEntries(mkdirSync(r1, pathDirname(dest)), src, dest,
                                 {Last(q) : q \in Children(r1.fs, src)})
             ELSE symlinkSync(r1, src, dest)

copyFile(r, plugin_dir, src0, project_dir, dest0, link) ==
    IF Failed(r) THEN r
    ELSE IF src0 = undefined THEN ThrowTypeError(r)
    ELSE LET src == pathResolve(<<Abs(plugin_dir), src0>>)
             dest == pathResolve(<<Abs(project_dir), dest0>>)
         IN  IF ~existsSync(r.fs, src)
             THEN ThrowCordova(Touch(r), <<"not found", src>>)
             ELSE IF ~isPathInside(realpathSync(r.fs, src),
                                   realpathSync(r.fs, plugin_dir))
             THEN ThrowCordova(Touch(r), <<"outside the plugin directory", src>>)
             ELSE IF ~isPathInside(dest, project_dir)
             THEN ThrowCordova(Touch(r), <<"outside the project", dest>>)
             ELSE LET r1 == mkdirSync(r, pathDirname(dest))
                  IN  IF link THEN symlinkFileOrDirTree(r1, src, dest)
                      ELSE cpSync(r1, src, dest)

\* a faulty copyNewFile without the existsSync test;
\* C5_AlreadyExistsGuardOfCopyNewFile detects it
copyNewFile_unguarded(r, plugin_dir, src0, project_dir, dest0, link) ==
    copyFile(r, plugin_dir, src0, project_dir, dest0, link)

\* Same as copy file but throws error if target exists
copyNewFile(r, plugin_dir, src0, project_dir, dest0, link) ==
    IF Failed(r) THEN r
    ELSE LET target_path == pathResolve(<<Abs(project_dir), dest0>>)
         IN  IF existsSync(r.fs, target_path)
             THEN ThrowCordova(Touch(r), <<"already exists", target_path>>)
             ELSE copyFile(Touch(r), plugin_dir, src0, project_dir, dest0, link)

\* a faulty removeFileF that removes nothing; C1_RoundTripLeavesNoFile
\* detects it
removeFileF_keeps(r, file) == r

removeFileF(r, file) == rmSync(r, file)

\* the while loop of removeFileAndParents; the filesystem root is never
\* empty, so the walk ends there at the latest
RECURSIVE pruneLoop(_, _, _)
pruneLoop(r, curDir, stopDir) ==
    IF Failed(r) \/ curDir = stopDir THEN r
    ELSE IF curDir # << >> /\ existsSync(r.fs, curDir)
            /\ Children(r.fs, curDir) = {}
         THEN pruneLoop(rmdirSync(r, curDir),
                        pathResolve(<<Abs(curDir), <<"..">>>>), stopDir)
         ELSE r

removeFileAndParents(r, baseDir, destFile, stopper0) ==
    IF Failed(r) THEN r
    ELSE LET stopper == IF stopper0 = undefined THEN <<".">> ELSE stopper0
             file == pathResolve(<<Abs(baseDir), destFile>>)
             stopDir == pathResolve(<<Abs(baseDir), stopper>>)
         IN  IF ~existsSync(r.fs, file) THEN Touch(r)
             ELSE LET r1 == removeFileF(r, file)
                      r2 == pruneLoop(r1, pathDirname(file), stopDir)
                  IN  [r2 EXCEPT !.prunes = r2.prunes \cup
                         {[baseDir |-> baseDir, stopDir |-> stopDir,
                           file |-> file,
                           removed |-> DOMAIN r1.fs \ DOMAIN r2.fs]}]

\* Sometimes we want to remove some java, and prune any unnecessary empty directories
deleteJava(r, project_dir, destFile) ==
    removeFileAndParents(r, project_dir, destFile, <<"src">>)


(***************************************************************************)
(* The handlers.  Each takes the run so far and returns the run, the       *)
(* directive object as the handler leaves it, and the project linkage      *)
(* operations it invoked, in order.                                        *)
(***************************************************************************)
Out(r, obj, calls) == [run |-> r, obj |-> obj, calls |-> calls]

source_file_install(r, obj, plugin, project, options) ==
    IF obj.src = undefined
    THEN Out(ThrowCordova(r, generateAttributeError("src", "source-file", plugin.id)),
             obj, << >>)
    ELSE IF obj.targetDir = undefined
    THEN Out(ThrowCordova(r, generateAttributeError("target-dir", "source-file", plugin.id)),
             obj, << >>)
    ELSE LET dest == getInstallDestination(obj)
         IN  IF options.force
             THEN Out(copyFile(r, plugin.dir, obj.src, project.projectDir, dest,
                               options.link), obj, << >>)
             ELSE Out(copyNewFile(r, plugin.dir, obj.src, project.projectDir, dest,
                                  options.link), obj, << >>)

source_file_uninstall(r, obj, plugin, project, options) ==
    IF obj.src = undefined \/ obj.targetDir = undefined
    THEN Out(ThrowTypeError(r), obj, << >>)
    ELSE LET dest == getInstallDestination(obj)
         IN  IF endsWith(obj.src, "java")
             THEN Out(deleteJava(r, project.projectDir, dest), obj, << >>)
             ELSE Out(removeFileF(r, pathResolve(<<Abs(project.projectDir), dest>>)),
                      obj, << >>)

lib_file_install(r, obj, plugin, project, options) ==
    IF obj.src = undefined THEN Out(ThrowTypeError(r), obj, << >>)
    ELSE LET dest == pathJoin(<<<<"app", "libs">>, pathBasename(obj.src)>>)
         IN  Out(copyFile(r, plugin.dir, obj.src, project.projectDir, dest,
                          options.link), obj, << >>)

lib_file_uninstall(r, obj, plugin, project, options) ==
    IF obj.src = undefined THEN Out(ThrowTypeError(r), obj, << >>)
    ELSE LET dest == pathJoin(<<<<"app", "libs">>, pathBasename(obj.src)>>)
         IN  Out(removeFileF(r, pathResolve(<<Abs(project.projectDir), dest>>)),
                 obj, << >>)

resource_file_install(r, obj, plugin, project, options) ==
    IF obj.target = undefined THEN Out(ThrowTypeError(r), obj, << >>)
    ELSE LET dest == pathJoin(<<<<"app">>, <<"src">>, <<"main">>, obj.target>>)
         IN  Out(copyFile(r, plugin.dir, obj.src, project.projectDir, dest,
                          options.link), obj, << >>)

resource_file_uninstall(r, obj, plugin, project, options) ==
    IF obj.target = undefined THEN Out(ThrowTypeError(r), obj, << >>)
    ELSE LET dest == pathJoin(<<<<"app">>, <<"src">>, <<"main">>, obj.target>>)
         IN  Out(removeFileF(r, pathResolve(<<Abs(project.projectDir), dest>>)),
                 obj, << >>)

\* const parentDir = obj.parent ? path.resolve(project.projectDir, obj.parent)
\*                              : project.projectDir
frameworkParentDir(obj, project) ==
    IF obj.parent # undefined
    THEN Abs(pathResolve(<<Abs(project.projectDir), obj.parent>>))
    ELSE Abs(project.projectDir)

\* a faulty type assignment that also overwrites the type of a custom
\* framework; C10_DirectiveUnchangedButType detects it
frameworkType_always_sys(obj) == "sys"

\* obj.type = 'sys' of the not-custom branch
frameworkType(obj) == IF obj.custom THEN obj.type ELSE "sys"

\* the if / else if / else on obj.type that picks the project operation
linkageOf(type) ==
    IF type = "gradleReference" THEN "GradleReference"
    ELSE IF type = "sys" THEN "SystemLibrary"
    ELSE "SubProject"

\* project.getCustomSubprojectRelativeDir(plugin.id, src): a directory of the
\* plugin's own under the project root, named after the framework
getCustomSubprojectRelativeDir(plugin_id, src) ==
    pathJoin(<<<<plugin_id>>, pathBasename(src)>>)

\* subDir = path.resolve(project.projectDir, subRelativeDir), or src
framework_install_subDir(obj, plugin, project) ==
    IF obj.custom
    THEN Abs(pathResolve(<<Abs(project.projectDir),
                           getCustomSubprojectRelativeDir(plugin.id, obj.src)>>))
    ELSE obj.src

\* a faulty uninstall that never recomputes the custom sub-project directory;
\* C9_LinkageSymmetry detects it
framework_uninstall_subDir_src(obj, plugin, project) == obj.src

framework_uninstall_subDir(obj, plugin, project) ==
    IF obj.custom
    THEN Abs(pathResolve(<<Abs(project.projectDir),
                           getCustomSubprojectRelativeDir(plugin.id, obj.src)>>))
    ELSE obj.src

framework_install(r, obj, plugin, project, options) ==
    LET src == obj.src IN
    IF src = undefined
    THEN Out(ThrowCordova(r, generateAttributeError("src", "framework", plugin.id)),
             obj, << >>)
    ELSE LET parentDir == frameworkParentDir(obj, project)
             subRelativeDir == getCustomSubprojectRelativeDir(plugin.id, src)
             r1 == IF obj.custom
                   THEN copyNewFile(r, plugin.dir, src, project.projectDir,
                                    subRelativeDir, options.link)
                   ELSE r
             subDir == framework_install_subDir(obj, plugin, project)
             obj1 == [obj EXCEPT !.type = frameworkType(obj)]
         IN  IF Failed(r1) THEN Out(r1, obj, << >>)
             ELSE Out(r1, obj1, << <<"add", linkageOf(obj1.type), parentDir, subDir>> >>)

framework_uninstall(r, obj, plugin, project, options) ==
    LET src == obj.src IN
    IF src = undefined
    THEN Out(ThrowCordova(r, generateAttributeError("src", "framework", plugin.id)),
             obj, << >>)
    ELSE LET parentDir == frameworkParentDir(obj, project)
             subRelativeDir == getCustomSubprojectRelativeDir(plugin.id, src)
             sub == pathResolve(<<Abs(project.projectDir), subRelativeDir>>)
             parDir == pathDirname(sub)
             r1 == IF obj.custom THEN removeFileF(r, sub) ELSE r
             \* If it's the last framework in the plugin, remove the parent directory.
             r2 == IF ~obj.custom \/ Failed(r1) THEN r1
                   ELSE IF ~existsSync(r1.fs, parDir) THEN r1
                   ELSE IF r1.fs[realpathSync(r1.fs, parDir)].t # "dir"
                        THEN Throw(r1, "ENOTDIR")
                   ELSE IF Children(r1.fs, parDir) = {} /\ parDir # << >>
                        THEN rmdirSync(r1, parDir)
                   ELSE r1
             subDir == framework_uninstall_subDir(obj, plugin, project)
             obj1 == [obj EXCEPT !.type = frameworkType(obj)]
         IN  IF Failed(r2) THEN Out(r2, obj, << >>)
             ELSE Out(r2, obj1, << <<"remove", linkageOf(obj1.type), parentDir, subDir>> >>)

asset_install(r, obj, plugin, project, options) ==
    IF obj.src = undefined
    THEN Out(ThrowCordova(r, generateAttributeError("src", "asset", plugin.id)),
             obj, << >>)
    ELSE IF obj.target = undefined
    THEN Out(ThrowCordova(r, generateAttributeError("target", "asset", plugin.id)),
             obj, << >>)
    ELSE LET r1 == copyFile(r, plugin.dir, obj.src, project.www, obj.target, FALSE)
         IN  IF options.usePlatformWww
             \* CB-11022 copy file to both directories if usePlatformWww is specified
             THEN Out(copyFile(r1, plugin.dir, obj.src, project.platformWww,
                               obj.target, FALSE), obj, << >>)
             ELSE Out(r1, obj, << >>)

asset_uninstall(r, obj, plugin, project, options) ==
    LET target == IF obj.target # undefined THEN obj.target ELSE obj.src IN
    IF target = undefined
    THEN Out(ThrowCordova(r, generateAttributeError("target", "asset", plugin.id)),
             obj, << >>)
    ELSE LET r1 == removeFileAndParents(r, project.www, target, undefined)
         IN  IF options.usePlatformWww
             THEN Out(removeFileAndParents(r1, project.platformWww, target, undefined),
                      obj, << >>)
             ELSE Out(r1, obj, << >>)


\* path.basename(src, path.extname(src)) on the file names the model uses
baseWithoutExt(src) ==
    LET b == Last(src)
    IN  CASE b = "a.js" -> "a"
          [] b = "c.json" -> "c"
          [] b = "Foo.java" -> "Foo"
          [] b = "f.txt" -> "f"
          [] OTHER -> b

\* .replace(/^\ufeff/, ''): a leading byte-order mark goes
stripBOM(content) ==
    IF content # << >> /\ Head(content) = "BOM" THEN Tail(content) ELSE content

\* the text js-module writes: cordova.define("<id>.<name>", function ... {
\* [module.exports = ] <content> });
scriptContent(obj, plugin, moduleSource, content) ==
    LET moduleName == <<plugin.id, ".",
                        IF obj.name # "" THEN obj.name ELSE baseWithoutExt(obj.src)>>
        body == IF endsWith(moduleSource, ".json")
                THEN <<"module.exports = ">> \o stripBOM(content)
                ELSE stripBOM(content)
    IN  <<"cordova.define(">> \o moduleName \o <<", function(require, exports, module) {">>
            \o body \o <<"});">>

js_module_install(r, obj, plugin, project, options) ==
    IF obj.src = undefined THEN Out(ThrowTypeError(r), obj, << >>)
    ELSE LET moduleSource == pathResolve(<<Abs(plugin.dir), obj.src>>)
             real == realpathSync(r.fs, moduleSource)
         IN  IF ~existsSync(r.fs, moduleSource)
             THEN Out(Throw(Touch(r), "ENOENT"), obj, << >>)
             ELSE IF r.fs[real].t = "dir"
             THEN Out(Throw(Touch(r), "EISDIR"), obj, << >>)
             ELSE LET text == scriptContent(obj, plugin, moduleSource, r.fs[real].c)
                      r0 == [r EXCEPT !.rd = r.rd \cup {real}, !.acc = TRUE]
                      wwwDest == pathResolve(<<Abs(project.www), <<"plugins">>,
                                               <<plugin.id>>, obj.src>>)
                      r1 == writeFileSync(mkdirSync(r0, pathDirname(wwwDest)),
                                          wwwDest, text)
                      platformWwwDest ==
                          pathResolve(<<Abs(project.platformWww), <<"plugins">>,
                                        <<plugin.id>>, obj.src>>)
                  IN  IF options.usePlatformWww
                      THEN Out(writeFileSync(
                                   mkdirSync(r1, pathDirname(platformWwwDest)),
                                   platformWwwDest, text), obj, << >>)
                      ELSE Out(r1, obj, << >>)

js_module_uninstall(r, obj, plugin, project, options) ==
    IF obj.src = undefined THEN Out(ThrowTypeError(r), obj, << >>)
    ELSE LET pluginRelativePath == pathJoin(<<<<"plugins">>, <<plugin.id>>, obj.src>>)
             r1 == removeFileAndParents(r, project.www, pluginRelativePath, undefined)
         IN  IF options.usePlatformWww
             THEN Out(removeFileAndParents(r1, project.platformWww,
                                           pluginRelativePath, undefined), obj, << >>)
             ELSE Out(r1, obj, << >>)

\* the kinds of the handlers table
Kinds == {"source-file", "lib-file", "resource-file", "framework", "asset",
          "js-module"}

\* getInstaller(type)(obj, plugin, project, options); a type with no handler
\* gets undefined back and the caller skips the directive
getInstaller(type, r, obj, plugin, project, options) ==
    CASE type = "source-file" -> source_file_install(r, obj, plugin, project, options)
      [] type = "lib-file" -> lib_file_install(r, obj, plugin, project, options)
      [] type = "resource-file" -> resource_file_install(r, obj, plugin, project, options)
      [] type = "framework" -> framework_install(r, obj, plugin, project, options)
      [] type = "asset" -> asset_install(r, obj, plugin, project, options)
      [] type = "js-module" -> js_module_install(r, obj, plugin, project, options)
      [] OTHER -> Out(r, obj, << >>)

getUninstaller(type, r, obj, plugin, project, options) ==
    CASE type = "source-file" -> source_file_uninstall(r, obj, plugin, project, options)
      [] type = "lib-file" -> lib_file_uninstall(r, obj, plugin, project, options)
      [] type = "resource-file" -> resource_file_uninstall(r, obj, plugin, project, options)
      [] type = "framework" -> framework_uninstall(r, obj, plugin, project, options)
      [] type = "asset" -> asset_uninstall(r, obj, plugin, project, options)
      [] type = "js-module" -> js_module_uninstall(r, obj, plugin, project, options)
      [] OTHER -> Out(r, obj, << >>)

\* the project's linkage operations: the references the project holds are a
\* bag; an add puts one in, a remove takes one out
RECURSIVE applyLinkage(_, _)
applyLinkage(bag, calls) ==
    IF calls = << >> THEN bag
    ELSE LET c == Head(calls)
             ref == SetToBag({<<c[2], c[3], c[4]>>})
         IN  applyLinkage(IF c[1] = "add" THEN bag (+) ref ELSE bag (-) ref,
                          Tail(calls))


(***************************************************************************)
(* The state machine.  The caller (the plugin installer) hands one         *)
(* directive at a time to an installer or an uninstaller and takes the     *)
(* outcome back before the next one.                                       *)
(***************************************************************************)
VARIABLES
    fs,      \* the filesystem
    refs,    \* the bag of linkage references the project holds
    pc,      \* "idle": the caller is between calls; "returned": a call ended
    ops,     \* calls made so far
    call,    \* the call that just ended
    inst,    \* the install that ended last, while nothing else ran since
    rpc, rObj, rDest   \* the destination resolver run on its own

vars == <<fs, refs, pc, ops, call, inst, rpc, rObj, rDest>>

\* calls in one run of the caller
MaxOps == 2

Directive(kind, src, target, targetDir) ==
    [kind |-> kind, src |-> src, target |-> target, targetDir |-> targetDir,
     name |-> "", parent |-> undefined, custom |-> FALSE, type |-> ""]

Framework(src, parent, custom, type) ==
    [kind |-> "framework", src |-> src, target |-> undefined,
     targetDir |-> undefined, name |-> "", parent |-> parent,
     custom |-> custom, type |-> type]

Up(n) == [i \in 1..n |-> ".."]

SourceFiles ==
    { Directive("source-file", <<"Foo.java">>, undefined, <<"src", "com">>),
      Directive("source-file", <<"a.js">>, undefined, <<"libs">>),
      Directive("source-file", undefined, undefined, <<"src", "com">>),
      Directive("source-file", <<"Foo.java">>, undefined, undefined) }

LibFiles ==
    { Directive("lib-file", <<"a.js">>, undefined, undefined),
      Directive("lib-file", undefined, undefined, undefined),
      \* a link of the plugin that leads out of it
      Directive("lib-file", <<"lnk">>, undefined, undefined),
      \* a directory
      Directive("lib-file", <<"d">>, undefined, undefined) }

ResourceFiles ==
    { Directive("resource-file", <<"a.js">>, <<"res", "a.js">>, undefined),
      Directive("resource-file", <<"a.js">>, undefined, undefined),
      Directive("resource-file", undefined, <<"res", "a.js">>, undefined),
      \* resolves to /out/Foo.java, outside the project
      Directive("resource-file", <<"a.js">>, Up(4) \o <<"out", "Foo.java">>,
                undefined) }

Frameworks ==
    { Framework(<<"d">>, undefined, TRUE, ""),
      Framework(<<"d">>, <<"app">>, TRUE, "gradleReference"),
      Framework(<<"d">>, undefined, TRUE, "sys"),
      Framework(<<"com.lib">>, undefined, FALSE, ""),
      Framework(<<"com.lib">>, <<"app">>, FALSE, "gradleReference"),
      Framework(undefined, undefined, FALSE, "") }

Assets ==
    { Directive("asset", <<"a.js">>, <<"t", "a.js">>, undefined),
      Directive("asset", undefined, <<"t", "a.js">>, undefined),
      Directive("asset", <<"a.js">>, undefined, undefined),
      Directive("asset", undefined, undefined, undefined) }

JsModules ==
    { Directive("js-module", <<"a.js">>, undefined, undefined),
      [Directive("js-module", <<"d", "c.json">>, undefined, undefined)
          EXCEPT !.name = "mod"],
      Directive("js-module", undefined, undefined, undefined),
      \* reads /out/Foo.java, outside the plugin
      Directive("js-module", <<"..", "out", "Foo.java">>, undefined, undefined),
      \* writes /plug/a.js, outside www
      Directive("js-module", Up(4) \o <<"plug", "a.js">>, undefined, undefined) }

\* a kind the handlers table does not hold
Unsupported == { Directive("header-file", <<"a.js">>, undefined, undefined) }

Directives ==
    SourceFiles \cup LibFiles \cup ResourceFiles \cup Frameworks \cup Assets
        \cup JsModules \cup Unsupported

Opts(force, link, usePlatformWww) ==
    [force |-> force, link |-> link, usePlatformWww |-> usePlatformWww]

\* the options a kind's handlers read
OptionsOf(kind) ==
    CASE kind \in {"source-file", "framework"} ->
            {Opts(f, l, FALSE) : f \in BOOLEAN, l \in BOOLEAN}
      [] kind \in {"lib-file", "resource-file"} ->
            {Opts(FALSE, l, FALSE) : l \in BOOLEAN}
      [] kind \in {"asset", "js-module"} ->
            {Opts(FALSE, FALSE, u) : u \in BOOLEAN}
      [] OTHER -> {Opts(FALSE, FALSE, FALSE)}

Inputs == UNION {{<<d, o>> : o \in OptionsOf(d.kind)} : d \in Directives}

Tree(dirs, files, links) ==
    [p \in dirs \cup DOMAIN files \cup DOMAIN links |->
        IF p \in dirs THEN DirNode
        ELSE IF p \in DOMAIN files THEN FileNode(files[p])
        ELSE LinkNode(links[p])]

\* the plugin's files, a file outside both trees, and a project that holds
\* its two www roots
FreshDirs ==
    {<< >>, <<"plug">>, <<"plug", "d">>, <<"out">>, <<"proj">>,
     <<"proj", "www">>, <<"proj", "pwww">>}
FreshFiles ==
    (<<"plug", "Foo.java">> :> <<"class Foo">>)
        @@ (<<"plug", "a.js">> :> <<"BOM", "a">>)
        @@ (<<"plug", "d", "c.json">> :> <<"{}">>)
        @@ (<<"out", "Foo.java">> :> <<"secret">>)
FreshLinks == (<<"plug", "lnk">> :> <<"out", "Foo.java">>)

FreshFs == Tree(FreshDirs, FreshFiles, FreshLinks)

\* the same with the app module of a built project in place
BuiltFs ==
    Tree(FreshDirs \cup {<<"proj", "app">>, <<"proj", "app", "libs">>,
                         <<"proj", "app", "src">>,
                         <<"proj", "app", "src", "main">>,
                         <<"proj", "app", "src", "main", "java">>},
         FreshFiles @@ (<<"proj", "app", "src", "main", "Manifest.xml">> :> <<"manifest">>),
         FreshLinks)

NullObj == Directive("", undefined, undefined, undefined)
NoOpts == Opts(FALSE, FALSE, FALSE)
NoFs == << >>

NoCall ==
    [op |-> "none", obj0 |-> NullObj, obj |-> NullObj, opts |-> NoOpts,
     err |-> NoErr, wr |-> {}, rd |-> {}, acc |-> FALSE, prunes |-> {},
     calls |-> << >>, pre |-> NoFs, prerefs |-> EmptyBag,
     trip |-> FALSE, tpre |-> NoFs, tprerefs |-> EmptyBag, tcalls |-> << >>,
     twr |-> {}]

NoInst ==
    [valid |-> FALSE, obj0 |-> NullObj, obj |-> NullObj, opts |-> NoOpts, pre |-> NoFs,
     prerefs |-> EmptyBag, calls |-> << >>, wr |-> {}]

\* a handler starts with nothing thrown, written or read
NewRun(f) == [fs |-> f, err |-> NoErr, wr |-> {}, rd |-> {}, acc |-> FALSE,
              prunes |-> {}]
Run0 == NewRun(fs)

Init ==
    /\ fs \in {FreshFs, BuiltFs}
    /\ refs = EmptyBag
    /\ pc = "idle"
    /\ ops = 0
    /\ call = NoCall
    /\ inst = NoInst
    /\ rpc = "off"
    /\ rObj = NullObj
    /\ rDest = << >>

\* what a call leaves behind, given the handler's outcome
Ended(op, d, o, out, trip) ==
    /\ fs' = out.run.fs
    /\ refs' = applyLinkage(refs, out.calls)
    /\ call' = [op |-> op, obj0 |-> d, obj |-> out.obj, opts |-> o,
                err |-> out.run.err, wr |-> out.run.wr, rd |-> out.run.rd,
                acc |-> out.run.acc, prunes |-> out.run.prunes,
                calls |-> out.calls, pre |-> fs, prerefs |-> refs,
                trip |-> trip,
                tpre |-> IF trip THEN inst.pre ELSE NoFs,
                tprerefs |-> IF trip THEN inst.prerefs ELSE EmptyBag,
                tcalls |-> IF trip THEN inst.calls ELSE << >>,
                twr |-> IF trip THEN inst.wr ELSE {}]
    /\ inst' = IF op = "install" /\ out.run.err = NoErr /\ d.kind \in Kinds
               THEN [valid |-> TRUE, obj0 |-> d, obj |-> out.obj, opts |-> o,
                     pre |-> fs,
                     prerefs |-> refs, calls |-> out.calls, wr |-> out.run.wr]
               ELSE NoInst
    /\ pc' = "returned"
    /\ ops' = ops + 1
    /\ UNCHANGED <<rpc, rObj, rDest>>

Install(d, o) ==
    /\ pc = "idle"
    /\ ops < MaxOps
    /\ Ended("install", d, o,
             getInstaller(d.kind, Run0, d, Plugin, Project, o), FALSE)

Uninstall(d, o) ==
    /\ pc = "idle"
    /\ ops < MaxOps
    /\ Ended("uninstall", d, o,
             getUninstaller(d.kind, Run0, d, Plugin, Project, o),
             inst.valid /\ d \in {inst.obj0, inst.obj} /\ inst.opts = o)

\* the caller takes the outcome and goes on to its next directive
Return ==
    /\ pc = "returned"
    /\ pc' = "idle"
    /\ call' = NoCall
    /\ UNCHANGED <<fs, refs, ops, inst, rpc, rObj, rDest>>

Next ==
    \/ \E in \in Inputs : Install(in[1], in[2])
    \/ \E in \in Inputs \cup (IF inst.valid THEN {<<inst.obj, inst.opts>>} ELSE {}) :
          Uninstall(in[1], in[2])
    \/ Return

Spec == Init /\ [][Next]_vars


(***************************************************************************)
(* The destination resolver on its own: getInstallDestination applied to   *)
(* every pair of a targetDir and a src of the sets below.                  *)
(***************************************************************************)
ResolverTargetDirs ==
    { <<"app">>, <<"app", "libs">>, <<"app", "src", "main", "java">>,
      <<"app", "..", "x">>,
      <<"src">>, <<"src", "com">>, <<"src", "main">>, <<"src", "main", "res">>,
      <<"libs">>, <<"libs", "arm">>, <<"res", "xml">>,
      <<"appx">>, <<"libsx">>, <<"srcx", "y">>,
      <<"..", "x">>, <<"src", "..", "..">> }

ResolverSrcs ==
    { <<"Foo.java">>, <<"sub", "Foo.java">>, <<"I.aidl">>, <<"l.so">>,
      <<"x.jar">>, <<"njava">> }

InitResolver ==
    /\ fs = NoFs
    /\ refs = EmptyBag
    /\ pc = "off"
    /\ ops = 0
    /\ call = NoCall
    /\ inst = NoInst
    /\ rpc = "start"
    /\ \E td \in ResolverTargetDirs, src \in ResolverSrcs :
          rObj = Directive("source-file", src, undefined, td)
    /\ rDest = << >>

Resolve ==
    /\ rpc = "start"
    /\ rDest' = getInstallDestination(rObj)
    /\ rpc' = "done"
    /\ UNCHANGED <<fs, refs, pc, ops, call, inst, rObj>>

NextResolver == Resolve

SpecResolver == InitResolver /\ [][NextResolver]_vars

(***************************************************************************)
(* C7, C8: the destination resolver                                        *)
(***************************************************************************)
\* "starts with '<dir>/'": the first segment is dir and more follows
StartsWithDir(td, dir) == Len(td) > 1 /\ td[1] = dir
EqualsOrStartsWithDir(td, dir) == Len(td) > 0 /\ td[1] = dir
Legacy(td) == ~(td = <<"app">> \/ StartsWithDir(td, "app"))
HasDotDot(p) == \E i \in 1..Len(p) : p[i] = ".."
BeginsWith(dest, prefix) == IsPrefix(prefix, dest)
Resolved == rpc = "done"

\* C7 as stated: every legacy targetDir resolves to a destination that
\* begins with app/src/main.
C7_LegacyBeginsWithAppSrcMain ==
    (Resolved /\ Legacy(rObj.targetDir))
        => BeginsWith(rDest, <<"app", "src", "main">>)

\* a targetDir under libs with a src that is neither .java, .aidl nor .so
LibsOther(obj) ==
    /\ EqualsOrStartsWithDir(obj.targetDir, "libs")
    /\ ~endsWith(obj.src, ".java")
    /\ ~endsWith(obj.src, ".aidl")
    /\ ~endsWith(obj.src, ".so")

\* C7 amended: a legacy targetDir with no ".." segment resolves to a
\* destination that begins with app/src/main, except that a targetDir equal
\* to libs or under libs/ with a src that is neither .java, .aidl nor .so
\* resolves to one that begins with app/libs.
C7_LegacyPrefix ==
    (Resolved /\ Legacy(rObj.targetDir) /\ ~HasDotDot(rObj.targetDir))
        => IF LibsOther(rObj)
           THEN BeginsWith(rDest, <<"app", "libs">>)
           ELSE BeginsWith(rDest, <<"app", "src", "main">>)

C7_Witness ==
    /\ Resolved
    /\ rObj.targetDir = <<"libs", "arm">>
    /\ rObj.src = <<"x.jar">>
    /\ rDest = <<"app", "libs", "arm", "x.jar">>

\* the ordered policy; under is how "<dir>/ leads targetDir" is read
Policy(td, src, under(_, _), mainUnder) ==
    LET base == <<Last(src)>>
        strip(dir) == IF under(td, dir) THEN Tail(td) ELSE td
    IN  IF td = <<"app">> \/ StartsWithDir(td, "app")
        THEN pathJoin(<<td, base>>)
        ELSE IF endsWith(src, ".java")
        THEN pathJoin(<<<<"app", "src", "main", "java">>, strip("src"), base>>)
        ELSE IF endsWith(src, ".aidl")
        THEN pathJoin(<<<<"app", "src", "main", "aidl">>, strip("src"), base>>)
        ELSE IF under(td, "libs")
        THEN IF endsWith(src, ".so")
             THEN pathJoin(<<<<"app", "src", "main", "jniLibs">>, strip("libs"), base>>)
             ELSE pathJoin(<<<<"app">>, td, base>>)
        ELSE IF under(td, "src") /\ Len(td) >= mainUnder /\ td[2] = "main"
        THEN pathJoin(<<<<"app">>, td, base>>)
        ELSE pathJoin(<<<<"app", "src", "main">>, td, base>>)

\* C8 as stated: the rules on src/, libs/ and src/main/ apply to a targetDir
\* that starts with that directory and a "/".
C8_PolicyAsStated ==
    Resolved => rDest = Policy(rObj.targetDir, rObj.src, StartsWithDir, 3)

\* C8 amended: getInstallDestination equals the ordered policy where the
\* rules on src, libs and src/main apply to a targetDir that equals that
\* directory or starts with it and a "/" (as the rule on app does), each
\* result being the normalised join of its parts.
C8_Policy ==
    Resolved => rDest = Policy(rObj.targetDir, rObj.src, EqualsOrStartsWithDir, 2)

C8_Witness ==
    /\ Resolved
    /\ rObj.targetDir = <<"libs">>
    /\ rObj.src = <<"l.so">>
    /\ rDest = <<"app", "src", "main", "jniLibs", "l.so">>


(***************************************************************************)
(* The claims on the handlers                                              *)
(***************************************************************************)
Installed == call.op = "install"
Uninstalled == call.op = "uninstall"
Called == Installed \/ Uninstalled
Succeeded == call.err = NoErr
\* an uninstall of the directive, with the options, of the install that
\* succeeded right before it
RoundTrip == Uninstalled /\ call.trip

\* the attributes a kind requires, with the name the error gives each
RequiredOf(kind) ==
    CASE kind = "source-file" -> {<<"src", "src">>, <<"targetDir", "target-dir">>}
      [] kind = "lib-file" -> {<<"src", "src">>}
      [] kind = "resource-file" -> {<<"src", "src">>, <<"target", "target">>}
      [] kind = "framework" -> {<<"src", "src">>}
      [] kind = "asset" -> {<<"src", "src">>, <<"target", "target">>}
      [] kind = "js-module" -> {<<"src", "src">>}
      [] OTHER -> {}

MissingOf(obj) == {a \in RequiredOf(obj.kind) : obj[a[1]] = undefined}
Complete(obj) == obj.kind \in Kinds /\ MissingOf(obj) = {}

\* the resolved destinations of a complete directive
DestinationsOf(obj, o) ==
    LET P == Abs(Project.projectDir)
        roots == {Abs(Project.www)}
                    \cup (IF o.usePlatformWww THEN {Abs(Project.platformWww)} ELSE {})
    IN  CASE obj.kind = "source-file" ->
                {pathResolve(<<P, getInstallDestination(obj)>>)}
          [] obj.kind = "lib-file" ->
                {pathResolve(<<P, <<"app", "libs">>, <<Last(obj.src)>> >>)}
          [] obj.kind = "resource-file" ->
                {pathResolve(<<P, <<"app", "src", "main">>, obj.target>>)}
          [] obj.kind = "framework" ->
                IF obj.custom
                THEN {pathResolve(<<P, <<Plugin.id>>, <<Last(obj.src)>> >>)}
                ELSE {}
          [] obj.kind = "asset" -> {pathResolve(<<w, obj.target>>) : w \in roots}
          [] obj.kind = "js-module" ->
                {pathResolve(<<w, <<"plugins">>, <<Plugin.id>>, obj.src>>) : w \in roots}
          [] OTHER -> {}

\* the trusted roots of a call's writes
TrustedRootsOf(obj, o) ==
    IF obj.kind \in {"asset", "js-module"}
    THEN {Project.www} \cup (IF o.usePlatformWww THEN {Project.platformWww} ELSE {})
    ELSE {Project.projectDir}

NothingAt(f, paths) == \A p \in paths : ~lexists(f, p)

C2_PathContainment ==
    Called =>
        /\ \A p \in call.wr :
              \E root \in TrustedRootsOf(call.obj0, call.opts) : isPathInside(p, root)
        /\ \A p \in call.rd : isPathInside(p, Plugin.dir)

\* C3 as stated: an install that fails leaves the filesystem as it was
\* before the call.
C3_NoPartialApplication == (Installed /\ ~Succeeded) => fs = call.pre

\* C4 as stated: an install with a required attribute absent, and an asset
\* uninstall with neither target nor src, fails with the configuration error
\* that names the attribute, the kind and the plugin id, before any
\* filesystem access.
C4_MissingAttribute ==
    LET obj == call.obj0
        configurationError(names) ==
            /\ \E n \in names : call.err = <<"CordovaError">>
                     \o generateAttributeError(n, obj.kind, Plugin.id)
            /\ ~call.acc
            /\ fs = call.pre
    IN  /\ (Installed /\ MissingOf(obj) # {})
              => configurationError({a[2] : a \in MissingOf(obj)})
        /\ (Uninstalled /\ obj.kind = "asset" /\ obj.target = undefined
               /\ obj.src = undefined)
              => configurationError({"target"})

\* the installs that copy
CopyBased(obj) ==
    \/ obj.kind \in {"source-file", "lib-file", "resource-file", "asset"}
    \/ obj.kind = "framework" /\ obj.custom

AlreadyExistsFailure(obj, o) ==
    /\ \E q \in DestinationsOf(obj, o) :
          call.err = <<"CordovaError", "already exists", q>>
    /\ fs = call.pre
    /\ call.wr = {}

DestinationExists(obj, o) ==
    \E q \in DestinationsOf(obj, o) : existsSync(call.pre, q)

C6_PruneBoundary ==
    Uninstalled =>
        \A c \in call.prunes :
            \A p \in c.removed :
                /\ isPathInside(c.file, p)
                /\ isPathInside(p, c.stopDir)
                /\ ~IsPrefix(p, c.baseDir)

ExactlyOne(calls, verb) ==
    /\ Len(calls) = 1
    /\ calls[1][1] = verb
    /\ calls[1][2] \in {"GradleReference", "SystemLibrary", "SubProject"}

\* C9: a framework install that completes invokes exactly one of
\* addGradleReference, addSystemLibrary, addSubProject; the uninstall of the
\* same directive completes and invokes exactly the matching remove operation
\* with the same (parentDir, subDir), and the project's references are then
\* those from before the install.
C9_LinkageSymmetry ==
    /\ (Installed /\ call.obj0.kind = "framework" /\ Succeeded)
          => ExactlyOne(call.calls, "add")
    /\ (RoundTrip /\ call.obj0.kind = "framework")
          => /\ Succeeded
             /\ ExactlyOne(call.tcalls, "add")
             /\ ExactlyOne(call.calls, "remove")
             /\ SubSeq(call.calls[1], 2, 4) = SubSeq(call.tcalls[1], 2, 4)
             /\ refs = call.tprerefs

C9_Witness ==
    /\ RoundTrip
    /\ call.obj0.kind = "framework"
    /\ call.obj0.custom
    /\ call.obj0.parent = <<"app">>
    /\ call.tcalls = << <<"add", "GradleReference", <<"/", "proj", "app">>,
                         <<"/", "proj", "pid", "d">> >> >>
    /\ call.calls = << <<"remove", "GradleReference", <<"/", "proj", "app">>,
                        <<"/", "proj", "pid", "d">> >> >>

=============================================================================
